---- MODULE Spec2Model ----
(***************************************************************************)
(* Model of the two Facebook Ads extraction scripts:                       *)
(*   analytics/scripts/facebook_ads_full_pull.py  (paginate, main)         *)
(*   analytics/scripts/facebook_ads_pull.py       (fetch_ads, main)        *)
(* The remote Graph API is the environment: every GET is answered by a     *)
(* response chosen from Responses(...).                                    *)
(***************************************************************************)
EXTENDS Integers, Sequences, FiniteSets, TLC

\* ---------------------------------------------------------------- bounds
\* longest chain of pages the server reports
MaxPages == 2
\* most records in one page's data array
MaxRecs == 2

\* ------------------------------------------------------ program constants
\* main() of facebook_ads_full_pull runs four report blocks
NumJobs == 4
\* fetch_ads: "if tries<=3"
MaxTries == 3
\* fetch_ads: "if r.status_code>=400"; raise_for_status raises from 400 on
ErrStatus == 400
\* paginate: "if error_code == 100"
BreakdownCode == 100

\* ------------------------------------------------------------- locators
\* A locator is a resource path plus the cursor it embeds; cursor 0 is the
\* initial locator, cursor k is the continuation reference returned with
\* page k (it addresses page k+1).
Loc(res, c) == [res |-> res, cursor |-> c]
\* Python None and the empty string, as values of paging.next
NoneVal == [res |-> "None", cursor |-> 0]
EmptyStr == [res |-> "", cursor |-> 0]
\* Python truthiness of a locator value ("if not next_url", "while next_url")
Truthy(x) == x \notin {NoneVal, EmptyStr}

\* A record of a page: its identity is (page, position); ins is the number
\* of entries of its insights.data (read by fetch_ads only). The server's
\* ads carry 0, 1 or 2 entries, fixed by their place in the chain.
InsOf(k, i) == (k + i) % 3
Rec(k, i) == [id |-> <<k, i>>, ins |-> InsOf(k, i)]

\* the data arrays page k may carry
PageDatas(k) == { [i \in 1..n |-> Rec(k, i)] : n \in 0..MaxRecs }

\* ------------------------------------------------------------ responses
\* kind: "transport" (no response at all), "dict" (body is a JSON object),
\* "nondict" (body is JSON but no object), "notjson" (body is not JSON).
Resp(status, kind, page, hasData, data, hasPaging, hasNext, next, hasError, code) ==
  [status |-> status, kind |-> kind, page |-> page, hasData |-> hasData, data |-> data,
   hasPaging |-> hasPaging, hasNext |-> hasNext, next |-> next,
   hasError |-> hasError, code |-> code]

\* no request has been answered yet
NoResponse == Resp(0, "none", 0, FALSE, <<>>, FALSE, FALSE, NoneVal, FALSE, 0)
TransportFailure == Resp(0, "transport", 0, FALSE, <<>>, FALSE, FALSE, NoneVal, FALSE, 0)
BodyOf(status, kind) == Resp(status, kind, 0, FALSE, <<>>, FALSE, FALSE, NoneVal, FALSE, 0)
ErrorBody(status, code) == Resp(status, "dict", 0, FALSE, <<>>, FALSE, FALSE, NoneVal, TRUE, code)

\* the page envelopes the server may return for page k of resource res
Envelopes(res, k) ==
  { Resp(200, "dict", k, TRUE, d, FALSE, FALSE, NoneVal, FALSE, 0) : d \in PageDatas(k) }
  \cup { Resp(200, "dict", k, TRUE, d, TRUE, FALSE, NoneVal, FALSE, 0) : d \in PageDatas(k) }
  \cup { Resp(200, "dict", k, TRUE, d, TRUE, TRUE, EmptyStr, FALSE, 0) : d \in PageDatas(k) }
  \cup (IF k < MaxPages
        THEN { Resp(200, "dict", k, TRUE, d, TRUE, TRUE, Loc(res, k), FALSE, 0) :
                 d \in PageDatas(k) }
        ELSE {})

\* the error codes other than 100 the server answers with (190: the
\* access token has expired)
OtherCodes == {190}

\* every answer a GET to locator loc may get
Responses(loc) ==
  IF ~Truthy(loc)
  THEN {TransportFailure}   \* requests raises MissingSchema, a RequestException
  ELSE {TransportFailure}
       \cup Envelopes(loc.res, loc.cursor + 1)
       \cup { BodyOf(200, "notjson"), BodyOf(200, "nondict") }
       \cup { ErrorBody(200, c) : c \in OtherCodes }
       \cup { ErrorBody(400, c) : c \in {BreakdownCode} \cup OtherCodes }
       \cup { ErrorBody(500, c) : c \in OtherCodes }
       \cup { BodyOf(400, "dict"), BodyOf(400, "nondict"), BodyOf(500, "notjson") }

\* ------------------------------------------------- Python dict accessors
\* payload.get("data", [])
GetData(p) == IF p.hasData THEN p.data ELSE <<>>
\* payload.get("paging", {}).get("next")
PagingNext(p) == IF p.hasPaging /\ p.hasNext THEN p.next ELSE NoneVal
\* a response the loops take as a page: status below 400, body a JSON object
IsPage(r) == r.kind = "dict" /\ r.status < ErrStatus
\* a request that failed: no response, an error status, or an unusable body
RequestFailed(r) == ~IsPage(r)

\* ------------------------------------------------ paginate, one iteration
\* What one pass through the body of "while True" leaves behind: the
\* generator's status ("running", "done" after break, "raised"), the
\* exception raised, the lines printed to stderr, the records yielded and
\* the locator and parameter mapping of the next request.
Out(ps, e, diag, y, url, params) ==
  [pstatus |-> ps, exc |-> e, diag |-> diag, yield |-> y, url |-> url, params |-> params]

\* a paginator that loses the first record of every page
EmitSkipsFirst(payload) ==
  IF GetData(payload) = <<>> THEN <<>> ELSE Tail(GetData(payload))
\* "yield from payload.get('data', [])"
Emit(payload) == GetData(payload)
\* a paginator that takes only None, not the empty string, as the end
ContinuesOnEmpty(next_url) == next_url # NoneVal
\* "if not next_url: break"
Continues(next_url) == Truthy(next_url)
\* a paginator that forgets to move on and asks for the same page again
NextLocatorStays(cur, next_url) == cur
\* "current_url = next_url"
NextLocator(cur, next_url) == next_url
\* a paginator that keeps sending the caller's parameters
NextParamsKept(params) == params
\* "current_params = {}"
NextParams(params) == {}
\* a handler that gives the breakdown hint for every decoded error code
IsBreakdownErrorAnyCode(error_code) == error_code # -1
\* "if error_code == 100"
IsBreakdownError(error_code) == error_code = BreakdownCode

\* a handler that logs the failure and ends the sequence instead of raising
OnRequestExceptionSwallowed(e, url, params) ==
  Out("done", "none", <<"NetworkError">>, <<>>, url, params)
\* "except requests.exceptions.RequestException as e: print(...); raise e"
OnRequestException(e, url, params) ==
  Out("raised", e, <<"NetworkError">>, <<>>, url, params)

\* "except requests.exceptions.HTTPError as e: ...; raise e"
\* e.response.json() of a body that is not JSON is caught (error_details
\* stays {}), of a JSON body that is no object .get raises AttributeError.
OnHTTPError(resp, url, params) ==
  IF resp.kind = "nondict"
  THEN Out("raised", "AttributeError", <<>>, <<>>, url, params)
  ELSE LET error_code == IF resp.kind = "dict" /\ resp.hasError THEN resp.code ELSE -1
       IN Out("raised", "HTTPError",
              <<"ApiError", IF IsBreakdownError(error_code) THEN "Hint" ELSE "Response">>,
              <<>>, url, params)

\* resp.json() of an undecodable body: requests >= 2.27 raises
\* requests.exceptions.JSONDecodeError, a RequestException (caught by the
\* second handler); older versions raise a plain ValueError (not caught).
OnUndecodable(modern, url, params) ==
  IF modern THEN OnRequestException("JSONDecodeError", url, params)
  ELSE Out("raised", "ValueError", <<>>, <<>>, url, params)

\* the try block after raise_for_status(): decode, yield, follow paging.next
OnResponse(resp, url, params, modern) ==
  IF resp.kind = "notjson" THEN OnUndecodable(modern, url, params)
  ELSE IF resp.kind = "nondict"
  THEN Out("raised", "AttributeError", <<>>, <<>>, url, params)
  ELSE LET next_url == PagingNext(resp)
       IN IF ~Continues(next_url)
          THEN Out("done", "none", <<>>, Emit(resp), url, params)
          ELSE Out("running", "none", <<>>, Emit(resp),
                   NextLocator(url, next_url), NextParams(params))

\* one iteration of the loop of paginate on the answer resp
PaginateIter(resp, url, params, modern) ==
  IF resp.kind = "transport" THEN OnRequestException("ConnectionError", url, params)
  ELSE IF resp.status >= ErrStatus THEN OnHTTPError(resp, url, params)
  ELSE OnResponse(resp, url, params, modern)

\* ----------------------------------------------------- the report jobs
JobNames == <<"metadata", "summary", "device", "placement">>
\* pull_metadata requests .../ads, pull_insights .../insights
JobRes(j) == IF j = 1 THEN "ads" ELSE "insights"
JobUrl(j) == Loc(JobRes(j), 0)
\* the keys of the parameter mapping each job builds
JobParams(j) ==
  IF j = 1 THEN {"fields", "limit"}
  ELSE IF j = 2 THEN {"level", "date_preset", "fields", "limit"}
  ELSE {"level", "date_preset", "fields", "limit", "breakdowns"}

\* fetch_ads: url and params
PullUrl == Loc("ads", 0)
PullParams == {"access_token", "limit", "fields"}

\* how a request ended: with a page, with an error status ("rejected"),
\* without a response ("transport") or with a body that is no JSON object
Outcome(resp) ==
  IF resp.kind = "transport" THEN "transport"
  ELSE IF resp.status >= ErrStatus THEN "rejected"
  ELSE IF resp.kind = "dict" THEN "page"
  ELSE "unusable"

\* an entry of the network log: the locator and the parameter mapping of
\* the GET, whether a time.sleep came between the answer before it and the
\* GET, and how it ended
LogEntry(url, params, delayed, resp) ==
  [url |-> url, params |-> params, delayed |-> delayed, outcome |-> Outcome(resp)]

\* a line of stdout
Line(msg, n) == [msg |-> msg, n |-> n]

\* ------------------------------------------------ fetch_ads, one iteration
\* the rows one ad contributes: one per insights entry, or one built from
\* the placeholder {} when it has none ("... or [{}]"); entry 0 is the placeholder
RowsOf(ad) ==
  IF ad.ins = 0 THEN << [ad |-> ad.id, entry |-> 0] >>
  ELSE [i \in 1..ad.ins |-> [ad |-> ad.id, entry |-> i]]

\* "for ad in payload.get('data', []): for i in insights: rows.append(...)"
RECURSIVE PageRows(_)
PageRows(data) ==
  IF data = <<>> THEN <<>> ELSE RowsOf(Head(data)) \o PageRows(Tail(data))

\* "def _fail(msg, code=1): print(...); sys.exit(code)"
FailCode == 1
Fail(code) == << code >>
\* OUT_FILE, the one file main of facebook_ads_pull writes
OutFile == "facebook_live_ads"
\* "params if next_url==url else {}"
RequestParams(nurl) == IF nurl = PullUrl THEN PullParams ELSE {}
\* a retry budget that is one too large
RetryAllowedOnceMore(t) == t <= MaxTries + 1
\* "tries+=1; if tries<=3: time.sleep(2*tries); continue"
RetryAllowed(t) == t <= MaxTries
\* "next_url=(payload.get('paging') or {}).get('next')"
FetchNext(payload) == PagingNext(payload)
\* a retry counter that starts afresh with every page received
TriesResetByPage(t) == 0
\* tries after a page was received: the loop body below the status check
\* never assigns it
TriesAfterPage(t) == t
\* whether fetch_ads sleeps before its next request: only on the retry
\* path, "if tries<=3: time.sleep(2*tries); continue"
FetchSleeps(resp, t) ==
  resp.kind # "transport" /\ resp.status >= ErrStatus /\ RetryAllowed(t + 1)
\* whether paginate sleeps before its next request: its loop holds no
\* time.sleep (the module does not import time)
PaginateSleeps(resp) == FALSE

FOut(pc, nurl, t, rws) == [fpc |-> pc, next_url |-> nurl, tries |-> t, rows |-> rws]

\* one iteration of "while next_url" on the answer resp: "crashed" is an
\* exception nobody catches, "exited" is _fail (sys.exit(1)), "returned"
\* is the loop left with next_url falsy
FetchIter(resp, nurl, t, rws) ==
  IF resp.kind = "transport" THEN FOut("crashed", nurl, t, rws)
  ELSE IF resp.status >= ErrStatus
  THEN IF RetryAllowed(t + 1) THEN FOut("loop", nurl, t + 1, rws)
       ELSE FOut("exited", nurl, t + 1, rws)
  ELSE IF resp.kind # "dict" THEN FOut("crashed", nurl, t, rws)
  ELSE LET n == FetchNext(resp)
       IN FOut(IF Truthy(n) THEN "loop" ELSE "returned", n, TriesAfterPage(t),
               rws \o PageRows(GetData(resp)))

\* ===================================================================
\* Record flattening: JSON values, the row building of fetch_ads and the
\* DataFrame of pull_metadata
\* ===================================================================
\* a JSON value carries its type: null, string, object (a function from
\* key to value) or list (a sequence of values)
Null == [t |-> "null", v |-> ""]
Str(s) == [t |-> "str", v |-> s]
Obj(f) == [t |-> "obj", v |-> f]
Arr(s) == [t |-> "list", v |-> s]
EmptyObj == Obj([k \in {} |-> Null])
IsObj(x) == x.t = "obj"
IsList(x) == x.t = "list"
\* Python's truth value of a JSON value
Falsy(x) ==
  \/ x.t = "null"
  \/ x.t = "str" /\ x.v = ""
  \/ x.t = "obj" /\ DOMAIN x.v = {}
  \/ x.t = "list" /\ Len(x.v) = 0
\* d.get(k) on a dict d: the value, or None when the key is absent
DictGet(d, k) == IF k \in DOMAIN d.v THEN d.v[k] ELSE Null
\* "x or dflt"
OrElse(x, dflt) == IF Falsy(x) THEN dflt ELSE x
\* what a .get on a value that is no dict leaves behind: AttributeError
Raises == [t |-> "raise", v |-> ""]

\* the insight entries an ad is flattened over, with no placeholder for an
\* ad without insights
InsightsOfNoPlaceholder(ad) ==
  LET holder == OrElse(DictGet(ad, "insights"), EmptyObj)
  IN IF IsObj(holder) THEN OrElse(DictGet(holder, "data"), Arr(<<>>)) ELSE Raises
\* "insights=(ad.get('insights') or {}).get('data') or [{}]"
InsightsOf(ad) ==
  LET holder == OrElse(DictGet(ad, "insights"), EmptyObj)
  IN IF IsObj(holder) THEN OrElse(DictGet(holder, "data"), Arr(<<EmptyObj>>)) ELSE Raises
\* the creative read without the "or {}" guard
CreativeOfUnguarded(ad) == DictGet(ad, "creative")
\* "creative=ad.get('creative') or {}"
CreativeOf(ad) == OrElse(DictGet(ad, "creative"), EmptyObj)
\* the dict appended to rows for insight entry i of ad
RowOf(ad, creative, i) ==
  [date_start |-> DictGet(i, "date_start"),
   date_stop |-> DictGet(i, "date_stop"),
   ad_id |-> DictGet(ad, "ad_id"),
   ad_name |-> DictGet(ad, "name"),
   adset_id |-> DictGet(ad, "adset_id"),
   adset_name |-> DictGet(ad, "adset_name"),
   campaign_id |-> DictGet(ad, "campaign_id"),
   campaign_name |-> DictGet(ad, "campaign_name"),
   headline |-> DictGet(creative, "title"),
   body |-> DictGet(creative, "body"),
   impressions |-> DictGet(i, "impressions"),
   reach |-> DictGet(i, "reach"),
   clicks |-> DictGet(i, "clicks"),
   unique_clicks |-> DictGet(i, "unique_clicks"),
   spend |-> DictGet(i, "spend"),
   cpc |-> DictGet(i, "cpc"),
   ctr |-> DictGet(i, "ctr"),
   cpm |-> DictGet(i, "cpm")]
\* the body of "for ad in payload.get('data', [])": the rows appended for
\* one ad, or the AttributeError of a .get on a value that is no dict
\* (uncaught in fetch_ads, so the rows are lost with the process)
FlattenAd(ad) ==
  IF ~IsObj(ad) THEN [rows |-> <<>>, raised |-> TRUE]
  ELSE LET insights == InsightsOf(ad)
           creative == CreativeOf(ad)
       IN IF \/ ~IsList(insights)
             \/ ~IsObj(creative)
             \/ \E n \in DOMAIN insights.v : ~IsObj(insights.v[n])
          THEN [rows |-> <<>>, raised |-> TRUE]
          ELSE [rows |-> [n \in DOMAIN insights.v |-> RowOf(ad, creative, insights.v[n])],
                raised |-> FALSE]
\* "pd.DataFrame(data) if data else pd.DataFrame()": one row per record,
\* the columns being the union of the records' keys and a record's missing
\* column filled with NaN
FrameOf(data) ==
  LET cols == UNION {DOMAIN data[n].v : n \in DOMAIN data}
  IN [n \in DOMAIN data |-> [c \in cols |-> DictGet(data[n], c)]]

\* ---- source records the Graph API may return
\* insight entries: every requested field, or only some of them
EntryFull ==
  Obj([date_start |-> Str("d1"), date_stop |-> Str("d2"), impressions |-> Str("10"),
       reach |-> Str("9"), clicks |-> Str("3"), unique_clicks |-> Str("2"),
       spend |-> Str("1.5"), cpc |-> Str("0.5"), ctr |-> Str("0.3"), cpm |-> Str("4")])
EntryPartial == Obj([date_start |-> Str("d3"), impressions |-> Str("7")])
\* a key the record does not carry
Absent == [t |-> "absent", v |-> ""]
\* the insights edge of an ad: absent, null, without a data list, with an
\* empty one, with one or two entries
InsightsShapes ==
  {Absent, Null, EmptyObj, Obj([data |-> Arr(<<>>)]),
   Obj([data |-> Arr(<<EntryFull>>)]), Obj([data |-> Arr(<<EntryFull, EntryPartial>>)])}
\* the creative of an ad (requested as creative{title,body,object_story_spec}):
\* absent, null, with title and body, or with a title and a story spec that
\* carries a story-level and a link-level message
CreativeShapes ==
  {Absent, Null,
   Obj([title |-> Str("T"), body |-> Str("B")]),
   Obj([title |-> Str("T"),
        object_story_spec |->
          Obj([message |-> Str("M"),
               link_data |-> Obj([message |-> Str("L")])])])}
\* the scalar fields of an ad: all of them, or the ad-set fields absent and
\* the campaign fields null
TopShapes ==
  {[ad_id |-> Str("a1"), name |-> Str("ad"), adset_id |-> Str("s1"),
    adset_name |-> Str("set"), campaign_id |-> Str("c1"), campaign_name |-> Str("camp")],
   [ad_id |-> Str("a2"), name |-> Str("ad2"), campaign_id |-> Null,
    campaign_name |-> Null]}
\* an ad record of the /ads edge as fetch_ads requests it
AdOf(top, ins, cre) ==
  LET keys == DOMAIN top \cup (IF ins = Absent THEN {} ELSE {"insights"})
                         \cup (IF cre = Absent THEN {} ELSE {"creative"})
  IN Obj([k \in keys |-> IF k = "insights" THEN ins
                         ELSE IF k = "creative" THEN cre ELSE top[k]])
AdShapes ==
  {AdOf(top, ins, cre) : top \in TopShapes, ins \in InsightsShapes, cre \in CreativeShapes}
\* the nested objects pull_metadata requests: adset{id,name}, campaign{id,name},
\* creative{id,name,...}
MetaNested == {"adset", "campaign", "creative"}
\* an ad record as pull_metadata requests it, with the nested objects of
\* present and the others absent
MetaOf(present) ==
  Obj([k \in {"id", "name", "status"} \cup present |->
        IF k \in MetaNested THEN Obj([id |-> Str("x"), name |-> Str("y")])
        ELSE Str(k)])
MetaShapes == {MetaOf(present) : present \in SUBSET MetaNested}
\* the sequences of 0..n elements of S
SeqsUpTo(S, n) == UNION {[1..m -> S] : m \in 0..n}

\* ------------------------------------------------------------- the state
VARIABLES
  prog,            \* which script runs: "full" or "pull"
  modern,          \* the installed requests raises its own JSONDecodeError
  reqs,            \* network log of the current pagination run
  slept,           \* a time.sleep has run since the latest answer
  last,            \* the answer to the latest request of the run
  served,          \* the pages the server returned in the current run
  current_url, current_params,   \* paginate's locals
  emitted,         \* the records paginate has yielded (list(paginate(...)))
  pstatus,         \* the generator: "idle", "running", "done", "raised"
  exc,             \* the exception in flight in the current job
  mainpc, job,     \* main of full_pull: position and current job
  started,         \* the jobs main has started, in order
  jstate,          \* per job: "Pending", "Running", "Succeeded", "Failed"
  stdout,          \* the lines printed to stdout in the current job
  stderr,          \* per job, the lines printed to stderr
  next_url, tries, rows,         \* fetch_ads's locals
  fpc,             \* facebook_ads_pull: "loop", "returned", "exited" (_fail),
                   \* "crashed" (uncaught in fetch_ads), "done", "writefailed"
  exitcode,        \* the codes passed to sys.exit
  sink,            \* the to_csv calls of the current job (of the process in
                   \* facebook_ads_pull): file, rows and whether it succeeded
  src,             \* flattening: the source records of one response
  flat,            \* flattening: the flat records built so far
  fdone,           \* flattening: how many source records were consumed
  raised           \* flattening: an exception left the loop

vars == <<prog, modern, reqs, slept, last, served, current_url, current_params, emitted, pstatus,
          exc, mainpc, job, started, jstate, stdout, stderr, next_url, tries, rows, fpc,
          exitcode, sink, src, flat, fdone, raised>>

fullVars == <<current_url, current_params, emitted, pstatus, exc, mainpc, job,
              started, jstate, stdout, stderr>>
pullVars == <<next_url, tries, rows, fpc, exitcode>>
flatVars == <<src, flat, fdone, raised>>

InitCommon ==
  /\ modern \in BOOLEAN
  /\ reqs = <<>> /\ served = <<>> /\ last = NoResponse /\ slept = FALSE
  /\ current_url = NoneVal /\ current_params = {}
  /\ emitted = <<>> /\ pstatus = "idle" /\ exc = "none"
  /\ mainpc = "idle" /\ job = 0 /\ started = <<>>
  /\ jstate = [j \in 1..NumJobs |-> "Pending"]
  /\ stdout = <<>>
  /\ stderr = [j \in 1..NumJobs |-> <<>>]
  /\ next_url = PullUrl /\ tries = 0 /\ rows = <<>> /\ fpc = "loop"
  /\ exitcode = <<>> /\ sink = <<>>
  /\ flat = <<>> /\ fdone = 0 /\ raised = FALSE

\* the flattening of the records of one response: the ads of a page for
\* the row building of fetch_ads ("flat"), the records pull_metadata
\* collected for its DataFrame ("frame")
InitFlat ==
  /\ InitCommon /\ modern
  /\ \/ prog = "flat" /\ src \in SeqsUpTo(AdShapes, MaxRecs)
     \/ prog = "frame" /\ src \in SeqsUpTo(MetaShapes, MaxRecs)
InitFull == prog = "full" /\ InitCommon /\ src = <<>>
InitPull == prog = "pull" /\ InitCommon /\ src = <<>>
\* one of the two scripts is run
Init == InitFull \/ InitPull

\* ------------------------------------------------- facebook_ads_full_pull
\* a report block of main is entered: pull_metadata / pull_insights build
\* url and params and list(paginate(url, params)) starts the generator
JobStart ==
  /\ prog = "full" /\ mainpc = "idle" /\ job < NumJobs
  /\ job' = job + 1
  /\ started' = Append(started, job + 1)
  /\ jstate' = [jstate EXCEPT ![job + 1] = "Running"]
  /\ current_url' = JobUrl(job + 1)
  /\ current_params' = JobParams(job + 1)
  /\ emitted' = <<>> /\ pstatus' = "running" /\ exc' = "none"
  /\ reqs' = <<>> /\ served' = <<>> /\ stdout' = <<>> /\ last' = NoResponse
  /\ slept' = FALSE /\ sink' = <<>>
  /\ mainpc' = "paginate"
  /\ UNCHANGED <<prog, modern, stderr>> /\ UNCHANGED pullVars /\ UNCHANGED flatVars

\* one pass through the loop of paginate
PaginateStep ==
  /\ prog = "full" /\ mainpc = "paginate" /\ pstatus = "running"
  /\ \E resp \in Responses(current_url) :
       LET o == PaginateIter(resp, current_url, current_params, modern)
       IN /\ reqs' = Append(reqs, LogEntry(current_url, current_params, slept, resp))
          /\ slept' = PaginateSleeps(resp)
          /\ last' = resp
          /\ served' = IF IsPage(resp) THEN Append(served, resp) ELSE served
          /\ emitted' = emitted \o o.yield
          /\ pstatus' = o.pstatus
          /\ exc' = o.exc
          /\ stderr' = [stderr EXCEPT ![job] = @ \o o.diag]
          /\ current_url' = o.url
          /\ current_params' = o.params
  /\ UNCHANGED <<prog, modern, mainpc, job, started, jstate, stdout, sink>>
  /\ UNCHANGED pullVars /\ UNCHANGED flatVars

\* a to_csv call: the file, the rows handed over, whether it succeeded
ToCsv(filename, data, ok) == [file |-> filename, rows |-> data, ok |-> ok]
\* a save_dataframe that writes the file also for an empty frame
SaveDataframeAlways(data, filename, ok) ==
  IF ok THEN [out |-> << Line("Wrote", Len(data)) >>, exc |-> "none",
              writes |-> << ToCsv(filename, data, ok) >>]
  ELSE [out |-> <<>>, exc |-> "OSError", writes |-> << ToCsv(filename, data, ok) >>]
\* save_dataframe(df, filename): ok is whether df.to_csv succeeds
SaveDataframe(data, filename, ok) ==
  IF data = <<>> THEN [out |-> << Line("NoData", 0) >>, exc |-> "none", writes |-> <<>>]
  ELSE IF ok THEN [out |-> << Line("Wrote", Len(data)) >>, exc |-> "none",
                   writes |-> << ToCsv(filename, data, ok) >>]
  ELSE [out |-> <<>>, exc |-> "OSError", writes |-> << ToCsv(filename, data, ok) >>]
\* an except block that saves what was collected before the failure
OnJobFailureSavesPartial(j, data) ==
  IF data = <<>> THEN <<>> ELSE << ToCsv(JobNames[j], data, TRUE) >>
\* the to_csv calls of a report block's "except Exception": none, it only
\* prints the FAILED line
OnJobFailure(j, data) == <<>>

\* a main whose first failing report ends the whole run
AfterJobAbortsOnFailure(j, failed) == IF failed THEN "finished" ELSE "idle"
\* where main goes after a report block: on to the next block, whether
\* the block ended normally or in its "except Exception"
AfterJob(j, failed) == "idle"

\* pagination completed: the DataFrame is built and saved; a failure of
\* the save is caught by the block's "except Exception"
JobSave ==
  /\ prog = "full" /\ mainpc = "paginate" /\ pstatus = "done"
  /\ \E ok \in BOOLEAN :
       LET s == SaveDataframe(emitted, JobNames[job], ok)
       IN /\ stdout' = stdout \o s.out
          /\ sink' = sink \o s.writes
          /\ exc' = s.exc
          /\ jstate' = [jstate EXCEPT ![job] = IF s.exc = "none" THEN "Succeeded" ELSE "Failed"]
          /\ stderr' = [stderr EXCEPT ![job] = IF s.exc = "none" THEN @ ELSE Append(@, "FAILED")]
          /\ mainpc' = AfterJob(job, s.exc # "none")
  /\ UNCHANGED <<prog, modern, reqs, slept, last, served, current_url, current_params, emitted,
                 pstatus, job, started>>
  /\ UNCHANGED pullVars /\ UNCHANGED flatVars

\* pagination raised: "except Exception as e: print(FAILED ..., file=sys.stderr)"
JobExcept ==
  /\ prog = "full" /\ mainpc = "paginate" /\ pstatus = "raised"
  /\ jstate' = [jstate EXCEPT ![job] = "Failed"]
  /\ stderr' = [stderr EXCEPT ![job] = Append(@, "FAILED")]
  /\ mainpc' = AfterJob(job, TRUE)
  /\ sink' = sink \o OnJobFailure(job, emitted)
  /\ UNCHANGED <<prog, modern, reqs, slept, last, served, current_url, current_params, emitted,
                 pstatus, exc, job, started, stdout>>
  /\ UNCHANGED pullVars /\ UNCHANGED flatVars

\* "Data pull process finished."
Finish ==
  /\ prog = "full" /\ mainpc = "idle" /\ job = NumJobs
  /\ mainpc' = "finished"
  /\ UNCHANGED <<prog, modern, reqs, slept, last, served, current_url, current_params, emitted,
                 pstatus, exc, job, started, jstate, stdout, stderr, sink>>
  /\ UNCHANGED pullVars /\ UNCHANGED flatVars

\* ------------------------------------------------------ facebook_ads_pull
\* one pass through "while next_url" of fetch_ads
FetchStep ==
  /\ prog = "pull" /\ fpc = "loop"
  /\ \E resp \in Responses(next_url) :
       LET o == FetchIter(resp, next_url, tries, rows)
       IN /\ reqs' = Append(reqs, LogEntry(next_url, RequestParams(next_url), slept, resp))
          /\ slept' = FetchSleeps(resp, tries)
          /\ last' = resp
          /\ served' = IF IsPage(resp) THEN Append(served, resp) ELSE served
          /\ fpc' = o.fpc
          /\ next_url' = o.next_url
          /\ tries' = o.tries
          /\ rows' = o.rows
          /\ exitcode' = IF o.fpc = "exited" THEN Fail(FailCode) ELSE exitcode
  /\ UNCHANGED <<prog, modern, sink>> /\ UNCHANGED fullVars /\ UNCHANGED flatVars

\* main: df.to_csv(OUT_FILE) and the "[OK] Wrote" line, or an OSError
PullWrite ==
  /\ prog = "pull" /\ fpc = "returned"
  /\ \E ok \in BOOLEAN :
       /\ fpc' = IF ok THEN "done" ELSE "writefailed"
       /\ sink' = Append(sink, ToCsv(OutFile, rows, ok))
  /\ UNCHANGED <<prog, modern, reqs, slept, last, served, next_url, tries, rows, exitcode>>
  /\ UNCHANGED fullVars /\ UNCHANGED flatVars

\* ------------------------------------------------------------- flattening
\* one pass through "for ad in payload.get('data', [])" of fetch_ads
FlattenStep ==
  /\ prog = "flat" /\ ~raised /\ fdone < Len(src)
  /\ LET o == FlattenAd(src[fdone + 1])
     IN /\ flat' = flat \o o.rows
        /\ raised' = o.raised
  /\ fdone' = fdone + 1
  /\ UNCHANGED <<prog, modern, reqs, slept, last, served, sink, src>>
  /\ UNCHANGED fullVars /\ UNCHANGED pullVars

\* pull_metadata: "return pd.DataFrame(data) if data else pd.DataFrame()"
FrameStep ==
  /\ prog = "frame" /\ fdone = 0 /\ src # <<>>
  /\ flat' = FrameOf(src)
  /\ fdone' = Len(src)
  /\ UNCHANGED <<prog, modern, reqs, slept, last, served, sink, src, raised>>
  /\ UNCHANGED fullVars /\ UNCHANGED pullVars

NextFull == JobStart \/ PaginateStep \/ JobSave \/ JobExcept \/ Finish
NextPull == FetchStep \/ PullWrite
NextFlat == FlattenStep \/ FrameStep
Next == NextFull \/ NextPull

Spec == Init /\ [][Next]_vars
\* main runs to completion: every step of the single thread is eventually taken
SpecFull == InitFull /\ [][NextFull]_vars /\ WF_vars(NextFull)
\* fetch_ads and main of facebook_ads_pull run to completion
SpecPull == InitPull /\ [][NextPull]_vars /\ WF_vars(NextPull)
\* the flattening of the records of one response, over every input
SpecFlat == InitFlat /\ [][NextFlat]_vars

\* ===================================================================
\* Properties
\* ===================================================================
\* the records of a sequence of pages, in page order
RECURSIVE Concat(_)
Concat(pages) ==
  IF pages = <<>> THEN <<>> ELSE Head(pages).data \o Concat(Tail(pages))
Ids(recs) == [i \in DOMAIN recs |-> recs[i].id]
AdIds(rws) == [i \in DOMAIN rws |-> rws[i].ad]
\* a sequence with every run of equal neighbours reduced to one element
RECURSIVE Dedup(_)
Dedup(s) ==
  IF Len(s) <= 1 THEN s
  ELSE IF s[1] = s[2] THEN Dedup(Tail(s))
  ELSE <<s[1]>> \o Dedup(Tail(s))
\* every request of the run so far was answered with a page
AllPages == \A i \in DOMAIN reqs : reqs[i].outcome = "page"
\* the pagination loop of the running script has completed normally
Completed ==
  \/ prog = "full" /\ pstatus = "done"
  \/ prog = "pull" /\ fpc \in {"returned", "done", "writefailed"}
\* the pages received form a chain walked to its end: all but the last
\* carry a continuation reference, the last carries none
WalkedToEnd ==
  /\ served # <<>>
  /\ \A i \in DOMAIN served :
       Truthy(PagingNext(served[i])) <=> i < Len(served)

\* C1: when every response of a run is successful, paginate has emitted,
\* and fetch_ads has turned into rows, every record of every page received,
\* exactly once, pages in chain order and records in the order of the
\* page's data array; at completion the chain has been walked to its end.
C1_OrderedEmission ==
  AllPages =>
    /\ prog = "full" /\ job > 0 => emitted = Concat(served)
    /\ prog = "pull" => Dedup(AdIds(rows)) = Ids(Concat(served))
    /\ Completed => WalkedToEnd

\* the scenario of the specification: two pages, 2 records then 1
C1_Witness ==
  /\ prog = "full" /\ pstatus = "done" /\ AllPages
  /\ Len(served) = 2 /\ Len(served[1].data) = 2 /\ Len(served[2].data) = 1
  /\ Len(emitted) = 3

\* C2: a completed run over a chain of N successful pages has issued
\* exactly N GET requests, the i-th for the locator of page i: none after
\* the terminal page, none twice for one page.
C2_ExactlyNRequests ==
  (prog = "full" /\ pstatus = "done" /\ AllPages) =>
    /\ Len(reqs) = Len(served)
    /\ \A i \in DOMAIN reqs : reqs[i].url = Loc(JobRes(job), i - 1)

C2_Witness ==
  /\ prog = "full" /\ pstatus = "done" /\ AllPages
  /\ Len(reqs) = 2 /\ Len(emitted) = 3

\* the latest answer is a successful page without continuation reference
TerminalPage == IsPage(last) /\ ~Truthy(PagingNext(last))

\* C3: a successful response without continuation reference (paging
\* absent, paging.next absent or empty) ends the pagination normally: the
\* records emitted in that step are exactly that page's records, the loop
\* is left without an exception, and no further request follows in the run.
C3_TerminalPageEnds ==
  /\ [](TerminalPage =>
          /\ Completed
          /\ prog = "full" => exc \in {"none", "OSError"} /\ pstatus = "done")
  /\ [][ /\ (TerminalPage' /\ reqs' # reqs /\ prog = "full")
              => emitted' = emitted \o last'.data
         /\ (TerminalPage' /\ reqs' # reqs /\ prog = "pull")
              => Dedup(AdIds(rows')) = Dedup(AdIds(rows)) \o Ids(last'.data)
         /\ (TerminalPage /\ reqs' # reqs) => reqs' = <<>> ]_vars

\* a page whose paging.next is the empty string ended the run normally
C3_Witness ==
  /\ prog = "full" /\ pstatus = "done" /\ jstate[job] = "Succeeded"
  /\ last.hasPaging /\ last.hasNext /\ last.next = EmptyStr
  /\ Len(last.data) = 2 /\ Len(served) = 2

\* the initial locator and parameter mapping of the current run
InitialUrl == IF prog = "full" THEN JobUrl(job) ELSE PullUrl
InitialParams == IF prog = "full" THEN JobParams(job) ELSE PullParams

\* C4: every request to the initial locator carries the caller's parameter
\* mapping; every other request goes to a continuation reference exactly as
\* a page of the run returned it and carries an empty parameter mapping,
\* first requests and requests repeated after an error response alike.
C4_ParamsOnlyWithInitial ==
  \A i \in DOMAIN reqs :
    /\ i = 1 => reqs[i].url = InitialUrl
    /\ reqs[i].url = InitialUrl => reqs[i].params = InitialParams
    /\ reqs[i].url # InitialUrl =>
         /\ reqs[i].params = {}
         /\ \E k \in DOMAIN served :
              served[k].hasPaging /\ served[k].hasNext /\ served[k].next = reqs[i].url

\* fetch_ads repeated both the initial request and a continuation request
C4_Witness ==
  /\ prog = "pull" /\ Len(reqs) = 4
  /\ reqs[1].outcome = "rejected" /\ reqs[2].outcome = "page"
  /\ reqs[3].outcome = "rejected" /\ reqs[4].outcome = "page"
  /\ reqs[3].url # PullUrl

\* the requests of the run that did not bring a page
Rejections == { i \in DOMAIN reqs : reqs[i].outcome = "rejected" }
NoRequestAfter(i) == i = Len(reqs)

C6_FirstFailureRaised ==
  (prog = "full" /\ job > 0 /\ last.kind # "none" /\ RequestFailed(last)) =>
    /\ pstatus = "raised" /\ exc # "none"
    /\ emitted = Concat(served)
    /\ Len(reqs) = Len(served) + 1
    /\ \A i \in DOMAIN reqs : i < Len(reqs) <=> reqs[i].outcome = "page"
    /\ stdout = <<>>
    /\ jstate[job] \in {"Running", "Failed"}

\* the request for page 2 failed after page 1 had brought two records
C6_Witness ==
  /\ prog = "full" /\ pstatus = "raised" /\ last.kind = "transport"
  /\ Len(served) = 1 /\ Len(emitted) = 2 /\ jstate[job] = "Failed"

AllJobs == [j \in 1..NumJobs |-> j]
Terminal(j) == jstate[j] \in {"Succeeded", "Failed"}

\* C7: main starts the four report jobs exactly once each, in the fixed
\* order, whatever the earlier jobs' outcomes; what a job's failure changes
\* is recorded against that job only; and the run always reaches its end,
\* with every job started and ended.
C7_AllJobsRun ==
  /\ [](/\ started = SubSeq(AllJobs, 1, job)
        /\ \A j \in 1..NumJobs : j < job => Terminal(j)
        /\ mainpc = "finished" => job = NumJobs /\ Terminal(NumJobs))
  /\ [][\A j \in 1..NumJobs :
          j # job' => jstate'[j] = jstate[j] /\ stderr'[j] = stderr[j]]_vars
  /\ <>(mainpc = "finished")

\* the run ended although the first three jobs failed
C7_Witness ==
  /\ mainpc = "finished" /\ started = AllJobs
  /\ jstate[1] = "Failed" /\ jstate[2] = "Failed" /\ jstate[3] = "Failed"
  /\ jstate[4] = "Succeeded"

Range(s) == { s[i] : i \in DOMAIN s }
\* the current job of main has ended
JobEnded == prog = "full" /\ job > 0 /\ mainpc # "paginate"
\* the "No data returned" line is on stdout
ReportedNoData == \E i \in DOMAIN stdout : stdout[i].msg = "NoData"
\* a response of the run carried an error object
GotErrorPayload == \E k \in DOMAIN served : served[k].hasError

\* C8: every ended job has exactly one outcome, a success line on stdout
\* (rows written, or "no data" for a row count of zero) or a FAILED line
\* on stderr; "no data" is reported only for a pagination that completed
\* with zero records, never for a failed request nor for an error payload.
C8_NoDataIsNotAnError ==
  JobEnded =>
    /\ \/ /\ jstate[job] = "Succeeded" /\ Len(stdout) = 1
          /\ "FAILED" \notin Range(stderr[job])
       \/ /\ jstate[job] = "Failed" /\ stdout = <<>>
          /\ Cardinality({ i \in DOMAIN stderr[job] : stderr[job][i] = "FAILED" }) = 1
    /\ ReportedNoData =>
         /\ pstatus = "done" /\ emitted = <<>> /\ AllPages
         /\ ~GotErrorPayload
    /\ (jstate[job] = "Succeeded" /\ ~ReportedNoData) =>
         stdout = << Line("Wrote", Len(emitted)) >> /\ emitted # <<>>

\* the rejection the remote API gives to an invalid breakdown combination
BreakdownRejection(r) ==
  r.status = ErrStatus /\ r.kind = "dict" /\ r.hasError /\ r.code = BreakdownCode

\* C9: a 400 response whose body decodes to an error object with code 100
\* makes paginate print the breakdown hint and raise the HTTPError; the
\* hint is printed for no rejection with another code (which gets the raw
\* response instead); the job that received it ends Failed, and every job
\* after it is still started.
C9_BreakdownSubcase ==
  (prog = "full" /\ job > 0) =>
    /\ BreakdownRejection(last) =>
         /\ pstatus = "raised" /\ exc = "HTTPError"
         /\ "Hint" \in Range(stderr[job]) /\ "Response" \notin Range(stderr[job])
         /\ mainpc # "paginate" => jstate[job] = "Failed"
    /\ "Hint" \in Range(stderr[job]) =>
         last.status >= ErrStatus /\ last.hasError /\ last.code = BreakdownCode
    /\ \A j \in 1..NumJobs :
         ("Hint" \in Range(stderr[j]) /\ j < job) =>
           jstate[j] = "Failed" /\ started[j + 1] = j + 1
    /\ mainpc = "finished" => \A j \in 1..NumJobs : Terminal(j)

\* the device job was rejected with code 100, its neighbours succeeded
C9_Witness ==
  /\ mainpc = "finished"
  /\ "Hint" \in Range(stderr[3]) /\ jstate[3] = "Failed"
  /\ jstate[2] = "Succeeded" /\ jstate[4] = "Succeeded"

\* C10: the failure classes of paginate are disjoint: a transport failure
\* goes through the network path, an HTTP error status never does, and a
\* successful-status response with an undecodable body is reported neither
\* through the network path nor as an API error.
C10_DisjointFailureClasses ==
  (prog = "full" /\ job > 0 /\ last.kind # "none") =>
    /\ last.kind = "transport" =>
         exc = "ConnectionError" /\ "NetworkError" \in Range(stderr[job])
    /\ (last.kind # "transport" /\ last.status >= ErrStatus) =>
         /\ "NetworkError" \notin Range(stderr[job])
         /\ exc \in {"HTTPError", "AttributeError"}
    /\ (last.kind = "notjson" /\ last.status < ErrStatus) =>
         /\ "NetworkError" \notin Range(stderr[job])
         /\ "ApiError" \notin Range(stderr[job])
         /\ exc \in {"JSONDecodeError", "ValueError"}

\* C11: every request to a continuation reference is preceded by a delay
\* step taken after the page that carried the reference was received.
C11_DelayBeforeContinuation ==
  \A i \in DOMAIN reqs :
    (i > 1 /\ reqs[i - 1].outcome = "page") => reqs[i].delayed

\* ---------------------------------------------------------- flattening
\* the keys of the dict fetch_ads appends to rows
RowFields ==
  {"date_start", "date_stop", "ad_id", "ad_name", "adset_id", "adset_name",
   "campaign_id", "campaign_name", "headline", "body", "impressions", "reach",
   "clicks", "unique_clicks", "spend", "cpc", "ctr", "cpm"}
\* the row fields read from an insight entry
EntryFields ==
  {"date_start", "date_stop", "impressions", "reach", "clicks", "unique_clicks",
   "spend", "cpc", "ctr", "cpm"}
\* the fields pull_metadata requests (of its scalar fields the ones the
\* source records of the model carry)
MetaFields == {"id", "name", "status"} \cup MetaNested
\* key k of the object is absent or null
Missing(obj, k) == k \notin DOMAIN obj.v \/ obj.v[k].t = "null"
\* the insight entries the source record carries
EntriesOf(ad) ==
  IF Missing(ad, "insights") THEN <<>>
  ELSE IF Missing(ad.v["insights"], "data") THEN <<>>
  ELSE ad.v["insights"].v["data"].v
\* the rows the ad is due: max(1, number of insight entries)
RowCount(ad) == IF Len(EntriesOf(ad)) = 0 THEN 1 ELSE Len(EntriesOf(ad))
\* the rows due to the source records before the k-th
RECURSIVE RowsBefore(_)
RowsBefore(k) == IF k <= 1 THEN 0 ELSE RowsBefore(k - 1) + RowCount(src[k - 1])
\* the n-th row of the k-th source record
RowAt(k, n) == flat[RowsBefore(k) + n]
\* the value under a key of a value that may be no object
Dig(x, k) == IF x.t = "obj" THEN DictGet(x, k) ELSE Null
\* the primary text the precedence rule resolves for a source record
PrimaryText(ad) ==
  LET story == Dig(Dig(ad, "creative"), "object_story_spec")
      storyMsg == Dig(story, "message")
      linkMsg == Dig(Dig(story, "link_data"), "message")
  IN IF storyMsg.t # "null" THEN storyMsg ELSE linkMsg

\* C12: all flat records of a job have the job's field-name set, absent
\* source data being a null value and never a missing key: the rows of
\* fetch_ads carry its 18 keys, the records of the metadata frame every
\* requested field.
C12_SameFieldSet ==
  /\ prog = "flat" => \A n \in DOMAIN flat : DOMAIN flat[n] = RowFields
  /\ prog = "frame" => \A n \in DOMAIN flat : DOMAIN flat[n] = MetaFields

\* C13: flattening a source record that lacks any of creative, insights,
\* the ad-set fields or the campaign fields (absent or null) never raises
\* and yields fully shaped rows whose fields derived from the missing
\* parts are null.
C13_MissingObjectsGiveNulls ==
  prog = "flat" =>
    /\ ~raised
    /\ Len(flat) = RowsBefore(fdone + 1)
    /\ \A k \in 1..fdone : \A n \in 1..RowCount(src[k]) :
         LET r == RowAt(k, n)
         IN /\ DOMAIN r = RowFields
            /\ Missing(src[k], "creative") => r.headline = Null /\ r.body = Null
            /\ Missing(src[k], "insights") => \A f \in EntryFields : r[f] = Null
            /\ Missing(src[k], "adset_id") => r.adset_id = Null
            /\ Missing(src[k], "adset_name") => r.adset_name = Null
            /\ Missing(src[k], "campaign_id") => r.campaign_id = Null
            /\ Missing(src[k], "campaign_name") => r.campaign_name = Null
\* a record without creative, insights and ad-set fields and with null
\* campaign fields was flattened
C13_Witness ==
  /\ prog = "flat" /\ fdone >= 1 /\ flat # <<>>
  /\ "creative" \notin DOMAIN src[1].v
  /\ "insights" \in DOMAIN src[1].v /\ src[1].v["insights"] = Null
  /\ "adset_id" \notin DOMAIN src[1].v
  /\ src[1].v["campaign_id"] = Null

\* C14: the text of every flat record is the story-level message when the
\* source record has one, else the link-level message, else null.
C14_PrimaryTextPrecedence ==
  prog = "flat" =>
    /\ Len(flat) = RowsBefore(fdone + 1)
    /\ \A k \in 1..fdone : \A n \in 1..RowCount(src[k]) :
         RowAt(k, n).body = PrimaryText(src[k])

\* C18: every ad contributes one row per insight entry, in order and with
\* the entry's values, or exactly one row with null metric and date fields
\* when it has no entries; the row count is the sum of max(1, entries).
C18_RowsPerAd ==
  prog = "flat" =>
    /\ Len(flat) = RowsBefore(fdone + 1)
    /\ \A k \in 1..fdone :
         LET es == EntriesOf(src[k])
         IN IF Len(es) = 0
            THEN \A f \in EntryFields : RowAt(k, 1)[f] = Null
            ELSE \A n \in 1..Len(es) : \A f \in EntryFields :
                   RowAt(k, n)[f] = DictGet(es[n], f)
\* an ad with two insight entries and one without were flattened into
\* three rows
C18_Witness ==
  /\ prog = "flat" /\ fdone = 2 /\ Len(src) = 2
  /\ Len(EntriesOf(src[1])) = 2 /\ Len(EntriesOf(src[2])) = 0
  /\ Len(flat) = 3

\* C15: the retry counter of fetch_ads counts the responses with status
\* >= 400 of the whole run and is never reset by a page received: the run
\* survives at most 3 of them, the 4th ends the process through _fail with
\* exit code 1 before anything is written.
C15_SharedRetryCounter ==
  prog = "pull" =>
    /\ tries = Cardinality(Rejections)
    /\ tries <= MaxTries + 1
    /\ (tries = MaxTries + 1) <=> (fpc = "exited")
    /\ fpc = "exited" =>
         /\ exitcode = << FailCode >>
         /\ reqs[Len(reqs)].outcome = "rejected"
         /\ sink = <<>>
    /\ fpc # "exited" => exitcode = <<>>
\* the process ended on the 4th rejection although the first rejection was
\* followed by a successful retry of its page
C15_Witness ==
  /\ prog = "pull" /\ fpc = "exited" /\ Len(reqs) = MaxTries + 2
  /\ reqs[1].outcome = "rejected" /\ reqs[2].outcome = "page"
  /\ reqs[2].url = reqs[1].url

\* C16: a job's output is all pages or nothing: while pagination runs and
\* after it failed (at any page, also after earlier pages were received)
\* nothing was handed to the sink, in facebook_ads_pull the process has
\* ended before to_csv; whatever is handed to the sink holds the records
\* of every page of a chain walked to its end.
C16_AllPagesOrNothing ==
  /\ prog = "full" =>
       /\ pstatus \in {"running", "raised"} => sink = <<>>
       /\ \A n \in DOMAIN sink :
            /\ pstatus = "done" /\ WalkedToEnd
            /\ sink[n].rows = Concat(served)
  /\ prog = "pull" =>
       /\ fpc \in {"loop", "exited", "crashed"} => sink = <<>>
       /\ \A n \in DOMAIN sink :
            /\ Completed /\ WalkedToEnd
            /\ sink[n].rows = PageRows(Concat(served))
\* a job whose pagination failed at its second page, after the first page
\* had yielded records, has ended Failed with nothing written
C16_Witness ==
  /\ prog = "full" /\ pstatus = "raised" /\ mainpc = "idle"
  /\ Len(reqs) = 2 /\ Len(served) = 1 /\ emitted # <<>>
  /\ jstate[job] = "Failed" /\ sink = <<>>

\* C19: a report job of facebook_ads_full_pull calls to_csv on its file if
\* and only if its pagination completed and yielded at least one record,
\* and then with exactly the records yielded; a job that completed with no
\* record reports "no data" and performs no operation on the file.
C19_FileWrittenIff ==
  prog = "full" /\ job > 0 =>
    /\ Len(sink) <= 1
    /\ mainpc = "paginate" => sink = <<>>
    /\ mainpc # "paginate" =>
         /\ sink # <<>> <=> (pstatus = "done" /\ emitted # <<>>)
         /\ pstatus = "done" /\ emitted = <<>> => ReportedNoData
    /\ \A n \in DOMAIN sink :
         /\ sink[n].file = JobNames[job]
         /\ sink[n].rows = emitted
         /\ sink[n].ok <=> jstate[job] = "Succeeded"
         /\ sink[n].ok <=> stdout = << Line("Wrote", Len(emitted)) >>
\* a job that walked two pages wrote their records to its file
C19_Witness ==
  /\ prog = "full" /\ mainpc = "idle" /\ job = 2 /\ pstatus = "done"
  /\ Len(served) = 2 /\ Len(emitted) >= 2
  /\ Len(sink) = 1 /\ sink[1].ok /\ sink[1].rows = emitted
  /\ sink[1].file = "summary"

\* the pages of the chain the run has requested so far
PagesRequested == { reqs[i].url : i \in DOMAIN reqs }

\* C17: over a finite chain the loop of fetch_ads ends, by returning the
\* rows or by ending the process, whatever the server answers; a run never
\* issues more requests than the pages it has reached plus 3; a response
\* with status >= 400 leaves next_url and rows as they were, and the next
\* request goes to the same page.
C17_FetchTerminates ==
  /\ <>(fpc # "loop")
  /\ [](/\ Len(reqs) <= Cardinality(PagesRequested) + MaxTries
        /\ Cardinality(PagesRequested) <= MaxPages
        /\ \A i \in DOMAIN reqs :
             (reqs[i].outcome = "rejected" /\ i < Len(reqs)) => reqs[i + 1].url = reqs[i].url)
  /\ [][(Len(reqs') > Len(reqs) /\ reqs'[Len(reqs')].outcome = "rejected")
          => (next_url' = next_url /\ rows' = rows)]_vars
\* a chain of MaxPages pages was walked to its end with 3 rejected
\* requests on the way: as many requests as pages plus 3
C17_Witness ==
  /\ prog = "pull" /\ fpc = "returned"
  /\ Len(served) = MaxPages /\ Cardinality(Rejections) = MaxTries
  /\ Len(reqs) = MaxPages + MaxTries /\ rows # <<>>

====
